---- MODULE Spec2Model ----
(***************************************************************************)
(* Model of the evolutionary C code optimizer: main.py (command line       *)
(* driver), optimizer.py (population lifecycle and the generation loop)    *)
(* and compiler.py (rewrite rules, compilation, timing).                   *)
(*                                                                         *)
(* Source text is a sequence of lines.  A line is a record                 *)
(* [kind, a, op, b] standing for one concrete line of C:                   *)
(*   func    int main() {                                                  *)
(*   assign  x = a op b;                                                   *)
(*   const   x = a;                                                        *)
(*   for     for (int i = a; i < b; i++) { x = x + i; }                    *)
(*   addc    x = x + a;                                                    *)
(*   open    {                                                             *)
(*   close   }                                                             *)
(*   copy    int y = x;                                                    *)
(*   rety    return y;                                                     *)
(*   ret     return x;                                                     *)
(*   cse     x = p + q + p + q;                                            *)
(*   tdecl   int cse_temp_a = p + q;                                       *)
(*   tuse    x = cse_temp_a + cse_temp_a;                                  *)
(* The regular expressions of compiler.py are modelled by what they match  *)
(* on these lines.                                                         *)
(***************************************************************************)
EXTENDS Integers, Sequences, FiniteSets, TLC

\* ------------------------------------------------------------------------
\* Bounds of the model
\* ------------------------------------------------------------------------
MaxPop == 2            \* --population ranges over 1..MaxPop in Spec
MaxGen == 4            \* --generations ranges over 1..MaxGen in Spec
MaxTime == 1           \* a successful run takes 1..MaxTime time units
NumChoices == 2        \* random.choice draws among the first NumChoices rules in Spec
MaxBody == 2           \* body lines of the programs SpecApply starts from
MaxApplications == 2   \* rule applications along one lineage in SpecApply
MaxGenPop == 3         \* --population ranges over 1..MaxGenPop in SpecGen
MaxSelPop == 7         \* --population ranges over 1..MaxSelPop in SpecSelect
MaxUndeleted == 1      \* os.remove calls that raise in one cleanup_variants

\* float('inf'): greater than every measured time
Inf == 1000
\* an individual that has no 'fitness' key yet
NoFitness == -1
\* Python's None
None == "None"

Times == (1..MaxTime) \cup {Inf}

Min(a, b) == IF a <= b THEN a ELSE b
Max(a, b) == IF a >= b THEN a ELSE b

\* ------------------------------------------------------------------------
\* compiler.py: the rewrite rules
\* ------------------------------------------------------------------------
OPTIMIZATIONS ==
  << "constant_folding", "loop_unrolling", "copy_propagation",
     "common_subexpression_elimination", "dead_code_elimination" >>

L(kind, a, op, b) == [kind |-> kind, a |-> a, op |-> op, b |-> b]
K(kind) == L(kind, 0, "", 0)

\* 'int main(' in line or ') {' in line
IsFunctionBoundary(line) == line.kind \in {"func", "for"}
\* line.count('{') and line.count('}')
OpenBraces(line) == IF line.kind \in {"func", "for", "open"} THEN 1 ELSE 0
CloseBraces(line) == IF line.kind \in {"for", "close"} THEN 1 ELSE 0

\* eval(expr) followed by int(result); a division by zero raises and the
\* match is returned as it was
replace_expression(line) ==
  IF line.kind # "assign" THEN line
  ELSE IF line.op = "+" THEN L("const", line.a + line.b, "", 0)
  ELSE IF line.op = "-" THEN L("const", line.a - line.b, "", 0)
  ELSE IF line.op = "*" THEN L("const", line.a * line.b, "", 0)
  ELSE IF line.op = "/" /\ line.b # 0 THEN L("const", line.a \div line.b, "", 0)
  ELSE line

apply_constant_folding(code) ==
  [i \in 1..Len(code) |-> replace_expression(code[i])]

RECURSIVE UnrolledBody(_, _)
UnrolledBody(i, end_val) ==
  IF i >= end_val THEN << >>
  ELSE << L("addc", i, "", 0) >> \o UnrolledBody(i + 1, end_val)

\* the replacement text of one matched loop, as lines
unroll_loop(line) ==
  IF line.b - line.a > 4 \/ line.b - line.a <= 0 THEN << line >>
  ELSE << K("open") >> \o UnrolledBody(line.a, line.b) \o << K("close") >>

RECURSIVE apply_loop_unrolling(_)
apply_loop_unrolling(code) ==
  IF code = << >> THEN << >>
  ELSE (IF Head(code).kind = "for" THEN unroll_loop(Head(code)) ELSE << Head(code) >>)
       \o apply_loop_unrolling(Tail(code))

\* copy_vars is the dict of known copies; the only copy these lines can
\* declare is y = x, so the dict is either empty or {y: x}
RECURSIVE CopyScan(_, _, _)
CopyScan(code, i, copy_vars) ==
  IF i > Len(code) THEN << >>
  ELSE LET line == code[i]
           cv1 == IF IsFunctionBoundary(line) THEN {} ELSE copy_vars
           cv2 == IF line.kind = "copy" THEN cv1 \cup {"y"} ELSE cv1
           modified_line == IF "y" \in cv2 /\ line.kind = "rety" THEN K("ret") ELSE line
           cv3 == IF line.kind = "close" THEN {} ELSE cv2
       IN << modified_line >> \o CopyScan(code, i + 1, cv3)

apply_copy_propagation(code) == CopyScan(code, 1, {})

\* expressions_seen maps the one repeated expression "p + q" to the number
\* of its temporary, or is empty (-1)
RECURSIVE CseScan(_, _, _, _, _)
CseScan(code, i, in_function, seen, temp_var_counter) ==
  IF i > Len(code) THEN << >>
  ELSE LET line == code[i]
           enter == IsFunctionBoundary(line)
           leave == ~enter /\ line.kind = "close" /\ in_function
           inf1 == IF enter THEN TRUE ELSE IF leave THEN FALSE ELSE in_function
           seen1 == IF enter \/ leave THEN -1 ELSE seen
           cnt1 == IF enter THEN 0 ELSE temp_var_counter
       IN IF ~inf1 \/ line.kind # "cse"
          THEN << line >> \o CseScan(code, i + 1, inf1, seen1, cnt1)
          ELSE IF seen1 # -1
          THEN << L("tuse", seen1, "", 0) >> \o CseScan(code, i + 1, inf1, seen1, cnt1)
          ELSE << L("tdecl", cnt1, "", 0), L("tuse", cnt1, "", 0) >>
               \o CseScan(code, i + 1, inf1, cnt1, cnt1 + 1)

apply_common_subexpression_elimination(code) == CseScan(code, 1, FALSE, -1, 0)

RECURSIVE DeadScan(_, _, _, _, _)
DeadScan(code, i, in_dead, brace_depth, dead_start_depth) ==
  IF i > Len(code) THEN << >>
  ELSE LET line == code[i]
           depth1 == brace_depth + OpenBraces(line) - CloseBraces(line)
       IN IF ~in_dead /\ line.kind \in {"ret", "rety"}
          THEN << line >> \o DeadScan(code, i + 1, TRUE, depth1, brace_depth)
          ELSE IF in_dead
          THEN IF depth1 <= dead_start_depth
               THEN << line >> \o DeadScan(code, i + 1, FALSE, depth1, dead_start_depth)
               ELSE DeadScan(code, i + 1, TRUE, depth1, dead_start_depth)
          ELSE << line >> \o DeadScan(code, i + 1, FALSE, depth1, dead_start_depth)

apply_dead_code_elimination(code) == DeadScan(code, 1, FALSE, 0, 0)

\* the rewritten text for the rule random.choice drew
ApplyRule(optimization, source_code) ==
  CASE optimization = "constant_folding" -> apply_constant_folding(source_code)
    [] optimization = "loop_unrolling" -> apply_loop_unrolling(source_code)
    [] optimization = "copy_propagation" -> apply_copy_propagation(source_code)
    [] optimization = "common_subexpression_elimination" ->
         apply_common_subexpression_elimination(source_code)
    [] optimization = "dead_code_elimination" -> apply_dead_code_elimination(source_code)
    [] OTHER -> source_code

\* apply_random_optimization, given the rule random.choice drew: the pair
\* (rewritten text, reported rule name)
apply_random_optimization(source_code, optimization) ==
  IF optimization \in {OPTIMIZATIONS[k] : k \in 1..Len(OPTIMIZATIONS)}
  THEN << ApplyRule(optimization, source_code), optimization >>
  ELSE << source_code, None >>

\* [optimization] if optimization else []  /  if optimization: append
Lineage(optimizations, optimization) ==
  IF optimization # None /\ optimization # ""
  THEN Append(optimizations, optimization)
  ELSE optimizations

\* ------------------------------------------------------------------------
\* State
\* ------------------------------------------------------------------------
VARIABLES
  pc,               \* position of the program
  keep_all,         \* args.keep_all
  population_size,  \* args.population
  max_generations,  \* args.generations
  original_time,    \* execution time of the baseline
  files,            \* the output directory: file name -> contents
  ind,              \* the individuals (dicts), by variant_id
  population,       \* current population: list of references to individuals
  best_individual,  \* reference to the best individual so far
  all_populations,  \* every population created, in order
  generation,       \* loop variable of the evolution loop
  best_individuals, \* the elites handed to create_next_generation
  next_generation,  \* the list create_next_generation is filling
  result,           \* what evolve_code returned
  gen_best,         \* population[0]['fitness'] after each evaluate_population
  best_log,         \* the best time printed at the end of each generation
  ap_code,          \* SpecApply: the text of the lineage so far
  ap_log,           \* SpecApply: the applications made (input, rule drawn, output, name)
  ap_opts           \* SpecApply: the 'optimizations' list of the lineage

driver_vars ==
  << pc, keep_all, population_size, max_generations, original_time, files, ind,
     population, best_individual, all_populations, generation, best_individuals,
     next_generation, result, gen_best, best_log >>
apply_vars == << ap_code, ap_log, ap_opts >>
vars == << driver_vars, apply_vars >>

\* ------------------------------------------------------------------------
\* Files of the output directory
\* ------------------------------------------------------------------------
\* variant_id is i in generation 0 and "<generation>_<slot>" afterwards;
\* both are written here as the pair <<generation, slot>>
VariantFile(variant_id) == << "variant.c", variant_id[1], variant_id[2] >>  \* <base>_variant_<id>.c
VariantExe(variant_id) == << "variant", variant_id[1], variant_id[2] >>     \* <base>_variant_<id>
OriginalExe == << "original", 0, 0 >>                                       \* <base>_original
OptimizedSource == << "optimized.c", 0, 0 >>                                \* <base>_optimized.c
OptimizedExe == << "optimized", 0, 0 >>                                     \* <base>_optimized
NoPath == << "None", 0, 0 >>

\* file.startswith(f"{base_name}_variant_")
IsVariantName(f) == f[1] \in {"variant.c", "variant"}
VariantFilesIn(fs) == {f \in DOMAIN fs : IsVariantName(f)}

WriteFile(fs, name, contents) ==
  [f \in (DOMAIN fs) \cup {name} |-> IF f = name THEN contents ELSE fs[f]]
RemoveFiles(fs, names) == [f \in (DOMAIN fs) \ names |-> fs[f]]
NoFiles == [f \in {} |-> << >>]

\* the program being optimized (read_source_code)
Source == << K("func"), L("assign", 2, "+", 3), L("for", 0, "", 2), K("ret"), K("close") >>

\* the rules random.choice draws among in Spec
Choices == {OPTIMIZATIONS[k] : k \in 1..Min(NumChoices, Len(OPTIMIZATIONS))}

NoIndividual == << -1, -1 >>
\* (None, None, None)
NoWinner == [executable |-> NoPath, fitness |-> NoFitness, optimizations |-> << >>]
NoIndividuals == [id \in {} |-> 0]

Range(s) == {s[i] : i \in 1..Len(s)}

\* the dict built in create_initial_population and create_next_generation
Individual(code, optimizations, variant_id) ==
  [ code |-> code,
    executable |-> VariantExe(variant_id),
    source_path |-> VariantFile(variant_id),
    optimizations |-> optimizations,
    variant_id |-> variant_id,
    fitness |-> NoFitness ]

\* compile_optimized_variant: writes the source, and the executable when
\* gcc succeeds
compile_optimized_variant(fs, optimized_code, variant_id, ok) ==
  IF ok
  THEN WriteFile(WriteFile(fs, VariantFile(variant_id), optimized_code),
                 VariantExe(variant_id), optimized_code)
  ELSE WriteFile(fs, VariantFile(variant_id), optimized_code)

\* population.sort(key=fitness): stable, ascending
RECURSIVE InsertByFitness(_, _, _)
InsertByFitness(sorted, id, heap) ==
  IF sorted = << >> THEN << id >>
  ELSE IF heap[id].fitness < heap[Head(sorted)].fitness
       THEN << id >> \o sorted
       ELSE << Head(sorted) >> \o InsertByFitness(Tail(sorted), id, heap)

RECURSIVE SortByFitness(_, _)
SortByFitness(pop, heap) ==
  IF pop = << >> THEN << >>
  ELSE InsertByFitness(SortByFitness(SubSeq(pop, 1, Len(pop) - 1), heap),
                       pop[Len(pop)], heap)

\* the heap after get_execution_time ran every individual of pop, run i
\* returning t[i]
Measured(heap, pop, t) ==
  [id \in DOMAIN heap |->
     IF id \in Range(pop)
     THEN [heap[id] EXCEPT !.fitness = t[CHOOSE i \in 1..Len(pop) : pop[i] = id]]
     ELSE heap[id]]

\* select_best
select_best(pop, top_n) == SubSeq(pop, 1, Min(top_n, Len(pop)))
\* max(1, population_size // 3)
TopNCeiling(ps) == Max(1, (ps + 2) \div 3)
TopN(ps) == Max(1, ps \div 3)

\* ------------------------------------------------------------------------
\* main.py
\* ------------------------------------------------------------------------
Init ==
  /\ pc = "main"
  /\ keep_all \in BOOLEAN
  /\ population_size \in 1..MaxPop
  /\ max_generations \in 1..MaxGen
  /\ original_time = NoFitness
  /\ files = NoFiles
  /\ ind = NoIndividuals
  /\ population = << >>
  /\ best_individual = NoIndividual
  /\ all_populations = << >>
  /\ generation = 0
  /\ best_individuals = << >>
  /\ next_generation = << >>
  /\ result = NoWinner
  /\ gen_best = << >>
  /\ best_log = << >>
  /\ ap_code = << >>
  /\ ap_log = << >>
  /\ ap_opts = << >>

\* compile_original fails: sys.exit(1)
MainCompileFails ==
  /\ pc = "main"
  /\ pc' = "exit1"
  /\ UNCHANGED << keep_all, population_size, max_generations, original_time, files,
                  ind, population, best_individual, all_populations, generation,
                  best_individuals, next_generation, result, gen_best, best_log >>
  /\ UNCHANGED apply_vars

\* compile_original succeeds and the baseline is timed; evolve_code is
\* entered (keep_all is not among its arguments)
MainBaseline ==
  /\ pc = "main"
  /\ \E t \in Times : original_time' = t
  /\ files' = WriteFile(files, OriginalExe, Source)
  /\ pc' = "create_initial"
  /\ UNCHANGED << keep_all, population_size, max_generations,
                  ind, population, best_individual, all_populations, generation,
                  best_individuals, next_generation, result, gen_best, best_log >>
  /\ UNCHANGED apply_vars

\* evolve_code returned: the results are printed and main ends
MainReport ==
  /\ pc = "returned"
  /\ pc' = "exit0"
  /\ UNCHANGED << keep_all, population_size, max_generations, original_time, files,
                  ind, population, best_individual, all_populations, generation,
                  best_individuals, next_generation, result, gen_best, best_log >>
  /\ UNCHANGED apply_vars

\* ------------------------------------------------------------------------
\* optimizer.py: generation 0
\* ------------------------------------------------------------------------
\* the files after slots i..population_size-1 of create_initial_population;
\* draw[i] is the pair (rule drawn, gcc succeeded)
RECURSIVE InitialFiles(_, _, _)
InitialFiles(fs, i, draw) ==
  IF i >= population_size THEN fs
  ELSE InitialFiles(
         compile_optimized_variant(fs, apply_random_optimization(Source, draw[i][1])[1],
                                   << 0, i >>, draw[i][2]),
         i + 1, draw)

RECURSIVE InitialPopulation(_, _)
InitialPopulation(i, draw) ==
  IF i >= population_size THEN << >>
  ELSE (IF draw[i][2] THEN << << 0, i >> >> ELSE << >>) \o InitialPopulation(i + 1, draw)

create_initial_population ==
  /\ pc = "create_initial"
  /\ \E draw \in [0..(population_size - 1) -> Choices \X BOOLEAN] :
       /\ files' = InitialFiles(files, 0, draw)
       /\ population' = InitialPopulation(0, draw)
       /\ ind' = [id \in {<< 0, i >> : i \in {j \in 0..(population_size - 1) : draw[j][2]}} |->
                    LET r == apply_random_optimization(Source, draw[id[2]][1])
                    IN Individual(r[1], Lineage(<< >>, r[2]), id)]
  /\ pc' = "check_initial"
  /\ UNCHANGED << keep_all, population_size, max_generations, original_time,
                  best_individual, all_populations, generation,
                  best_individuals, next_generation, result, gen_best, best_log >>
  /\ UNCHANGED apply_vars

\* if not population: return None, None, None
InitialPopulationEmpty ==
  /\ pc = "check_initial"
  /\ population = << >>
  /\ result' = NoWinner
  /\ pc' = "returned"
  /\ UNCHANGED << keep_all, population_size, max_generations, original_time, files,
                  ind, population, best_individual, all_populations, generation,
                  best_individuals, next_generation, gen_best, best_log >>
  /\ UNCHANGED apply_vars

\* evaluate_population(population, timeout), then best_individual and
\* all_populations are set and the best time of generation 0 is printed
EvaluateInitial ==
  /\ pc = "check_initial"
  /\ population # << >>
  /\ \E t \in [1..Len(population) -> Times] :
       /\ ind' = Measured(ind, population, t)
       /\ population' = SortByFitness(population, ind')
  /\ best_individual' = population'[1]
  /\ all_populations' = << population' >>
  /\ gen_best' = << ind'[population'[1]].fitness >>
  /\ best_log' = << ind'[best_individual'].fitness >>
  /\ pc' = "gen0"
  /\ UNCHANGED << keep_all, population_size, max_generations, original_time, files,
                  generation, best_individuals, next_generation, result >>
  /\ UNCHANGED apply_vars

\* best_individual['fitness'] >= original_time: the files of the
\* individuals of the population are removed, return None, None, None
NoImprovement ==
  /\ pc = "gen0"
  /\ ind[best_individual].fitness >= original_time
  /\ files' = RemoveFiles(files, {ind[id].source_path : id \in Range(population)}
                                   \cup {ind[id].executable : id \in Range(population)})
  /\ result' = NoWinner
  /\ pc' = "returned"
  /\ UNCHANGED << keep_all, population_size, max_generations, original_time,
                  ind, population, best_individual, all_populations, generation,
                  best_individuals, next_generation, gen_best, best_log >>
  /\ UNCHANGED apply_vars

StartEvolution ==
  /\ pc = "gen0"
  /\ ~(ind[best_individual].fitness >= original_time)
  /\ pc' = "loop"
  /\ UNCHANGED << keep_all, population_size, max_generations, original_time, files,
                  ind, population, best_individual, all_populations, generation,
                  best_individuals, next_generation, result, gen_best, best_log >>
  /\ UNCHANGED apply_vars

\* ------------------------------------------------------------------------
\* optimizer.py: the evolution loop
\* ------------------------------------------------------------------------
\* for generation in range(1, max_generations + 1): select_best, and the
\* elites are put first in next_generation
SelectBest ==
  /\ pc = "loop"
  /\ generation < max_generations
  /\ generation' = generation + 1
  /\ best_individuals' = select_best(population, TopN(population_size))
  /\ next_generation' = best_individuals'
  /\ pc' = "fill"
  /\ UNCHANGED << keep_all, population_size, max_generations, original_time, files,
                  ind, population, best_individual, all_populations,
                  result, gen_best, best_log >>
  /\ UNCHANGED apply_vars

\* the range is exhausted
LoopExhausted ==
  /\ pc = "loop"
  /\ generation >= max_generations
  /\ pc' = "cleanup"
  /\ UNCHANGED << keep_all, population_size, max_generations, original_time, files,
                  ind, population, best_individual, all_populations, generation,
                  best_individuals, next_generation, result, gen_best, best_log >>
  /\ UNCHANGED apply_vars

\* while len(next_generation) < population_size
NeedsChildOffByOne(n, ps) == n <= ps
NeedsChild(n, ps) == n < ps

\* variant_id = f"{generation}_{len(next_generation)}"
ChildIdBySlot(gen, n) == << 0, n >>
ChildId(gen, n) == << gen, n >>

\* one turn of the while loop in which the child compiles
FillChild ==
  /\ pc = "fill"
  /\ NeedsChild(Len(next_generation), population_size)
  /\ \E p \in 1..Len(best_individuals), optimization \in Choices :
       LET parent == ind[best_individuals[p]]
           r == apply_random_optimization(parent.code, optimization)
           variant_id == ChildId(generation, Len(next_generation))
       IN /\ files' = compile_optimized_variant(files, r[1], variant_id, TRUE)
          /\ ind' = [id \in (DOMAIN ind) \cup {variant_id} |->
                       IF id = variant_id
                       THEN Individual(r[1], Lineage(parent.optimizations, r[2]), variant_id)
                       ELSE ind[id]]
          /\ next_generation' = Append(next_generation, variant_id)
  /\ UNCHANGED << pc, keep_all, population_size, max_generations, original_time,
                  population, best_individual, all_populations, generation,
                  best_individuals, result, gen_best, best_log >>
  /\ UNCHANGED apply_vars

\* one turn of the while loop in which gcc fails: the source stays on
\* disk and the slot is tried again
FillCompileFails ==
  /\ pc = "fill"
  /\ NeedsChild(Len(next_generation), population_size)
  /\ \E p \in 1..Len(best_individuals), optimization \in Choices :
       LET parent == ind[best_individuals[p]]
           r == apply_random_optimization(parent.code, optimization)
           variant_id == ChildId(generation, Len(next_generation))
       IN files' = compile_optimized_variant(files, r[1], variant_id, FALSE)
  /\ UNCHANGED << pc, keep_all, population_size, max_generations, original_time,
                  ind, population, best_individual, all_populations, generation,
                  best_individuals, next_generation, result, gen_best, best_log >>
  /\ UNCHANGED apply_vars

\* create_next_generation returns; all_populations.append(population)
NextGenerationCreated ==
  /\ pc = "fill"
  /\ ~NeedsChild(Len(next_generation), population_size)
  /\ population' = next_generation
  /\ all_populations' = Append(all_populations, next_generation)
  /\ pc' = "evaluate"
  /\ UNCHANGED << keep_all, population_size, max_generations, original_time, files,
                  ind, best_individual, generation,
                  best_individuals, next_generation, result, gen_best, best_log >>
  /\ UNCHANGED apply_vars

\* population = evaluate_population(population, timeout): every individual
\* of the population is run, the elites included.  all_populations holds
\* the same list object, which is sorted in place.
EvaluateGeneration ==
  /\ pc = "evaluate"
  /\ \E t \in [1..Len(population) -> Times] :
       /\ ind' = Measured(ind, population, t)
       /\ population' = SortByFitness(population, ind')
  /\ all_populations' = [all_populations EXCEPT ![Len(all_populations)] = population']
  /\ gen_best' = Append(gen_best, ind'[population'[1]].fitness)
  /\ pc' = "compare"
  /\ UNCHANGED << keep_all, population_size, max_generations, original_time, files,
                  best_individual, generation,
                  best_individuals, next_generation, result, best_log >>
  /\ UNCHANGED apply_vars

\* population[0]['fitness'] < best_individual['fitness']
NewBest ==
  /\ pc = "compare"
  /\ ind[population[1]].fitness < ind[best_individual].fitness
  /\ best_individual' = population[1]
  /\ best_log' = Append(best_log, ind[population[1]].fitness)
  /\ pc' = "stop_check"
  /\ UNCHANGED << keep_all, population_size, max_generations, original_time, files,
                  ind, population, all_populations, generation,
                  best_individuals, next_generation, result, gen_best >>
  /\ UNCHANGED apply_vars

NoNewBest ==
  /\ pc = "compare"
  /\ ~(ind[population[1]].fitness < ind[best_individual].fitness)
  /\ best_log' = Append(best_log, ind[best_individual].fitness)
  /\ pc' = "stop_check"
  /\ UNCHANGED << keep_all, population_size, max_generations, original_time, files,
                  ind, population, best_individual, all_populations, generation,
                  best_individuals, next_generation, result, gen_best >>
  /\ UNCHANGED apply_vars

\* [gen[0]['fitness'] for gen in [population]]
last_three_best == << ind[population[1]].fitness >>

\* if generation >= 3 and len(set(last_three_best)) == 1: break
StopNow == generation >= 3 /\ Cardinality(Range(last_three_best)) = 1

EarlyStop ==
  /\ pc = "stop_check"
  /\ StopNow
  /\ pc' = "cleanup"
  /\ UNCHANGED << keep_all, population_size, max_generations, original_time, files,
                  ind, population, best_individual, all_populations, generation,
                  best_individuals, next_generation, result, gen_best, best_log >>
  /\ UNCHANGED apply_vars

ContinueLoop ==
  /\ pc = "stop_check"
  /\ ~StopNow
  /\ pc' = "loop"
  /\ UNCHANGED << keep_all, population_size, max_generations, original_time, files,
                  ind, population, best_individual, all_populations, generation,
                  best_individuals, next_generation, result, gen_best, best_log >>
  /\ UNCHANGED apply_vars

\* ------------------------------------------------------------------------
\* optimizer.py: cleanup_variants
\* ------------------------------------------------------------------------
\* the two shutil.copy2 calls inside one try: the call that raises (a
\* missing file, or an error of the file system: raised = 1 for the first
\* call, 2 for the second, 0 for none) and the rest of the block are skipped
CopyBest(fs, best, raised) ==
  IF raised = 1 \/ best.source_path \notin DOMAIN fs THEN fs
  ELSE LET fs1 == WriteFile(fs, OptimizedSource, fs[best.source_path])
       IN IF raised = 2 \/ best.executable \notin DOMAIN fs1 THEN fs1
          ELSE WriteFile(fs1, OptimizedExe, fs1[best.executable])

CleanupCopy ==
  /\ pc = "cleanup"
  /\ \E raised \in 0..2 : files' = CopyBest(files, ind[best_individual], raised)
  /\ pc' = "cleanup_delete"
  /\ UNCHANGED << keep_all, population_size, max_generations, original_time,
                  ind, population, best_individual, all_populations, generation,
                  best_individuals, next_generation, result, gen_best, best_log >>
  /\ UNCHANGED apply_vars

\* os.walk(output_dir): every file named <base>_variant_* is removed, the
\* best individual's included; an os.remove that raises is reported and
\* its file stays (kept).  Then evolve_code returns the stable executable
\* path, the fitness and the optimizations of best_individual
CleanupDelete ==
  /\ pc = "cleanup_delete"
  /\ \E kept \in SUBSET VariantFilesIn(files) :
       /\ Cardinality(kept) <= MaxUndeleted
       /\ files' = RemoveFiles(files, VariantFilesIn(files) \ kept)
  /\ result' = [executable |-> OptimizedExe,
                fitness |-> ind[best_individual].fitness,
                optimizations |-> ind[best_individual].optimizations]
  /\ pc' = "returned"
  /\ UNCHANGED << keep_all, population_size, max_generations, original_time,
                  ind, population, best_individual, all_populations, generation,
                  best_individuals, next_generation, gen_best, best_log >>
  /\ UNCHANGED apply_vars

Next ==
  \/ MainCompileFails
  \/ MainBaseline
  \/ MainReport
  \/ create_initial_population
  \/ InitialPopulationEmpty
  \/ EvaluateInitial
  \/ NoImprovement
  \/ StartEvolution
  \/ SelectBest
  \/ LoopExhausted
  \/ FillChild
  \/ FillCompileFails
  \/ NextGenerationCreated
  \/ EvaluateGeneration
  \/ NewBest
  \/ NoNewBest
  \/ EarlyStop
  \/ ContinueLoop
  \/ CleanupCopy
  \/ CleanupDelete

Spec == Init /\ [][Next]_vars

\* ------------------------------------------------------------------------
\* SpecApply: apply_random_optimization along one lineage
\* ------------------------------------------------------------------------
SourceLines ==
  { L("assign", 2, "+", 3), L("assign", 1, "/", 0), L("for", 0, "", 2), L("for", 0, "", 5),
    K("copy"), K("rety"), K("ret"), K("cse"), K("open"), K("close") }

Bodies == UNION {[1..n -> SourceLines] : n \in 0..MaxBody}
Programs == {<< K("func") >> \o body \o << K("close") >> : body \in Bodies}

Idle ==
  /\ keep_all = FALSE
  /\ population_size = 1
  /\ max_generations = 1
  /\ original_time = NoFitness
  /\ files = NoFiles
  /\ ind = NoIndividuals
  /\ population = << >>
  /\ best_individual = NoIndividual
  /\ all_populations = << >>
  /\ generation = 0
  /\ best_individuals = << >>
  /\ next_generation = << >>
  /\ result = NoWinner
  /\ gen_best = << >>
  /\ best_log = << >>

InitApply ==
  /\ pc = "apply"
  /\ Idle
  /\ ap_code \in Programs
  /\ ap_log = << >>
  /\ ap_opts = << >>

\* optimized_code, optimization = apply_random_optimization(code), and the
\* name is added to the lineage as create_initial_population and
\* create_next_generation add it
Apply ==
  /\ pc = "apply"
  /\ Len(ap_log) < MaxApplications
  /\ \E optimization \in Range(OPTIMIZATIONS) :
       LET r == apply_random_optimization(ap_code, optimization)
       IN /\ ap_code' = r[1]
          /\ ap_opts' = Lineage(ap_opts, r[2])
          /\ ap_log' = Append(ap_log, [input |-> ap_code, drawn |-> optimization,
                                       output |-> r[1], name |-> r[2]])
  /\ UNCHANGED driver_vars

NextApply == Apply

SpecApply == InitApply /\ [][NextApply]_vars

\* whether the pattern of the rule matches anywhere in the text
Matches(optimization, code) ==
  \E i \in 1..Len(code) :
    CASE optimization = "constant_folding" -> code[i].kind = "assign"
      [] optimization = "loop_unrolling" -> code[i].kind = "for"
      [] optimization = "copy_propagation" -> code[i].kind = "copy"
      [] optimization = "common_subexpression_elimination" ->
           code[i].kind \in {"for", "cse", "tdecl", "tuse"}
      [] optimization = "dead_code_elimination" -> code[i].kind \in {"ret", "rety"}
      [] OTHER -> FALSE

\* ------------------------------------------------------------------------
\* SpecGen, SpecSelect: one generation, from any evaluated generation 0
\* ------------------------------------------------------------------------
\* the state in which the evolution loop is entered: of ps slots the first
\* k compiled, run i took t[i], and the best beat the baseline
LoopEntry(maxPs) ==
  \E ps \in 1..maxPs : \E k \in 1..ps : \E t \in [1..k -> Times] : \E ot \in Times :
    LET draw == [i \in 0..(ps - 1) |-> << OPTIMIZATIONS[1], i < k >>]
        code0 == apply_random_optimization(Source, OPTIMIZATIONS[1])
        pop0 == [i \in 1..k |-> << 0, i - 1 >>]
        heap0 == [id \in Range(pop0) |->
                    Individual(code0[1], Lineage(<< >>, code0[2]), id)]
        heap == Measured(heap0, pop0, t)
        pop == SortByFitness(pop0, heap)
    IN /\ heap[pop[1]].fitness < ot
       /\ pc = "loop"
       /\ keep_all = FALSE
       /\ population_size = ps
       /\ max_generations = 1
       /\ original_time = ot
       /\ files = InitialFiles(WriteFile(NoFiles, OriginalExe, Source), 0, draw)
       /\ ind = heap
       /\ population = pop
       /\ best_individual = pop[1]
       /\ all_populations = << pop >>
       /\ generation = 0
       /\ best_individuals = << >>
       /\ next_generation = << >>
       /\ result = NoWinner
       /\ gen_best = << heap[pop[1]].fitness >>
       /\ best_log = << heap[pop[1]].fitness >>
       /\ ap_code = << >>
       /\ ap_log = << >>
       /\ ap_opts = << >>

InitGen == LoopEntry(MaxGenPop)

NextGen ==
  \/ SelectBest
  \/ FillChild
  \/ FillCompileFails
  \/ NextGenerationCreated
  \/ EvaluateGeneration

SpecGen == InitGen /\ [][NextGen]_vars

InitSelect == LoopEntry(MaxSelPop)

NextSelect == SelectBest

SpecSelect == InitSelect /\ [][NextSelect]_vars

\* ------------------------------------------------------------------------
\* Properties
\* ------------------------------------------------------------------------
RECURSIVE MinOf(_)
MinOf(s) == IF Len(s) = 1 THEN s[1] ELSE Min(s[1], MinOf(Tail(s)))

Returned == pc \in {"returned", "exit0"}
HasWinner == result.executable # NoPath

\* C1: the best fitness of generation g+1 is at most the best fitness of
\* generation g, for every generation the loop runs and whatever the runs
\* measure
ElitismMonotonicity ==
  \A g \in 1..(Len(gen_best) - 1) : gen_best[g + 1] <= gen_best[g]

\* C2: the fitness of best_individual, seen at the end of generation 0 and
\* of every later generation, never increases, and the fitness evolve_code
\* returns is the least best fitness of all generations
BestSoFarNeverWorsens ==
  /\ \A g \in 1..(Len(best_log) - 1) : best_log[g + 1] <= best_log[g]
  /\ (Returned /\ HasWinner) => result.fitness = MinOf(gen_best)

\* C3: when the best fitness of generation 0 is at least original_time,
\* evolve_code returns no winner, creates no later generation, writes
\* nothing under the optimized names, leaves the baseline executable and
\* leaves no variant source or executable of generation 0, the sources of
\* variants that failed to compile included
NoImprovementRemovesAllVariants ==
  (Returned /\ gen_best # << >> /\ gen_best[1] >= original_time) =>
    /\ ~HasWinner
    /\ Len(all_populations) = 1
    /\ OptimizedSource \notin DOMAIN files
    /\ OptimizedExe \notin DOMAIN files
    /\ OriginalExe \in DOMAIN files
    /\ VariantFilesIn(files) = {}

\* C4: the loop ends at a generation g < max_generations exactly when
\* g >= 3 and the best fitness of generation g equals that of generation
\* g-1; when g >= 3 and they differ the loop goes on
EarlyStopOnlyOnPlateau ==
  /\ (pc = "cleanup" /\ generation < max_generations) =>
       (generation >= 3 /\ gen_best[generation + 1] = gen_best[generation])
  /\ (pc = "loop" /\ generation >= 3) =>
       gen_best[generation + 1] # gen_best[generation]

\* C5: an infinite fitness is never the winner: best_individual is finite
\* when the run goes on to persist it, and the returned fitness is finite
WinnerFitnessFinite ==
  /\ pc \in {"cleanup", "cleanup_delete"} => ind[best_individual].fitness < Inf
  /\ (Returned /\ HasWinner) => result.fitness < Inf

\* C6: the population produced for a generation g >= 1 by
\* create_next_generation and evaluate_population has exactly
\* population_size individuals, whatever the size of the generation before
PopulationSizeAfterGeneration ==
  (pc = "compare" /\ generation >= 1) => Len(population) = population_size

\* a generation 0 smaller than population_size was refilled to three or
\* more individuals, every source of the new generation having compiled
PopulationRefilled ==
  /\ pc = "compare"
  /\ generation = 1
  /\ population_size >= 3
  /\ Len(best_individuals) < population_size - 1
  /\ Len(population) = population_size
  /\ \A f \in VariantFilesIn(files) :
       (f[1] = "variant.c" /\ f[2] = 1) => << "variant", f[2], f[3] >> \in DOMAIN files

\* C7: a rule that matches nothing returns the text unchanged with an empty
\* rule name, and the lineage holds one name for each application that
\* changed the text
NoOpRewriteReportsNoRule ==
  /\ \A i \in 1..Len(ap_log) :
       ~Matches(ap_log[i].drawn, ap_log[i].input) =>
         (ap_log[i].output = ap_log[i].input /\ ap_log[i].name \in {"", None})
  /\ Len(ap_opts) = Cardinality({i \in 1..Len(ap_log) : ap_log[i].output # ap_log[i].input})

\* C8: with --keep-all no variant source or executable is ever deleted
KeepAllDisablesDeletion ==
  [][keep_all => \A f \in VariantFilesIn(files) : f \in DOMAIN files']_vars

\* C9: the fitness of an individual is written once: an individual that
\* has a fitness keeps that value (an elite is not run again)
FitnessWrittenOnce ==
  [][\A id \in DOMAIN ind :
       ind[id].fitness # NoFitness => ind'[id].fitness = ind[id].fitness]_vars

\* C10 as stated: the number of elites is the ceiling of population_size/3,
\* at least 1, bounded by the size of the generation before
ElitesAreCeilingThird ==
  pc = "fill" =>
    LET n == Len(best_individuals)
    IN /\ 1 <= n /\ n <= Len(population)
       /\ 3 * n >= population_size \/ n = Len(population)
       /\ n = 1 \/ 3 * (n - 1) < population_size

\* C10 as amended: the number of elites is the floor of population_size/3,
\* at least 1, bounded by the size of the generation before, and the
\* elites are the first individuals of the sorted generation
ElitesAreFloorThird ==
  pc = "fill" =>
    LET n == Len(best_individuals)
    IN /\ 1 <= n /\ n <= Len(population)
       /\ n = 1 \/ 3 * n <= population_size
       /\ 3 * (n + 1) > population_size \/ n = Len(population)
       /\ \A i \in 1..n : best_individuals[i] = population[i]

\* one elite is taken from a full generation of five
OneEliteOfFive ==
  /\ pc = "fill"
  /\ population_size = 5
  /\ Len(population) = 5
  /\ Len(best_individuals) = 1

\* ------------------------------------------------------------------------
\* Termination
\* ------------------------------------------------------------------------
\* the program is sequential and always takes its next step; whether gcc
\* succeeds is the environment's choice and carries no fairness
FairSpec == Spec /\ WF_vars(Next)

\* C11: create_next_generation returns whatever the compilations do, a
\* failing slot being retried a bounded number of times only, so the run
\* always reaches its end
EvolveCodeTerminates == <>(pc \in {"exit0", "exit1"})

\* ------------------------------------------------------------------------
\* SpecIds: one generation, from the entry of any turn of the evolution loop
\* ------------------------------------------------------------------------
\* the turns the loop can begin: the break at generation >= 3 ends it
LastEntry == 2

\* the state in which turn g+1 of the loop begins, g >= 1, after a run in
\* which every variant compiled at once, every rule drawn was the first
\* and every run took 1: the first TopN individuals of generation 0 were
\* the elites of every generation
LaterEntry(maxPs) ==
  \E ps \in 1..maxPs : \E g \in 1..LastEntry : \E ot \in Times \ {1} :
    LET e == TopN(ps)
        rule == OPTIMIZATIONS[1]
        code0 == apply_random_optimization(Source, rule)
        code1 == apply_random_optimization(code0[1], rule)
        elites == [i \in 1..e |-> << 0, i - 1 >>]
        pop0 == [i \in 1..ps |-> << 0, i - 1 >>]
        popOf(h) == [i \in 1..ps |-> IF i <= e THEN << 0, i - 1 >> ELSE ChildId(h, i - 1)]
        children == {ChildId(h, n) : h \in 1..g, n \in e..(ps - 1)}
        made(id) == IF id \in Range(pop0)
                    THEN Individual(code0[1], Lineage(<< >>, code0[2]), id)
                    ELSE Individual(code1[1], Lineage(Lineage(<< >>, code0[2]), code1[2]), id)
        heap == [id \in Range(pop0) \cup children |-> [made(id) EXCEPT !.fitness = 1]]
        names == {OriginalExe} \cup {heap[id].source_path : id \in DOMAIN heap}
                               \cup {heap[id].executable : id \in DOMAIN heap}
    IN /\ pc = "loop"
       /\ keep_all = FALSE
       /\ population_size = ps
       /\ max_generations = g + 1
       /\ original_time = ot
       /\ files = [f \in names |->
                     IF f = OriginalExe THEN Source ELSE heap[<< f[2], f[3] >>].code]
       /\ ind = heap
       /\ population = popOf(g)
       /\ best_individual = << 0, 0 >>
       /\ all_populations = [h \in 1..(g + 1) |-> IF h = 1 THEN pop0 ELSE popOf(h - 1)]
       /\ generation = g
       /\ best_individuals = elites
       /\ next_generation = popOf(g)
       /\ result = NoWinner
       /\ gen_best = [h \in 1..(g + 1) |-> 1]
       /\ best_log = [h \in 1..(g + 1) |-> 1]
       /\ ap_code = << >>
       /\ ap_log = << >>
       /\ ap_opts = << >>

InitIds == LoopEntry(MaxGenPop) \/ LaterEntry(MaxGenPop)

SpecIds == InitIds /\ [][NextGen]_vars

\* str(n)
DigitChars == << "0", "1", "2", "3", "4", "5", "6", "7", "8", "9" >>
RECURSIVE Digits(_)
Digits(n) ==
  IF n < 10 THEN << DigitChars[n + 1] >>
  ELSE Append(Digits(n \div 10), DigitChars[(n % 10) + 1])

\* the text of a variant_id: str(i) in generation 0, "<generation>_<slot>"
\* afterwards
IdText(variant_id) ==
  IF variant_id[1] = 0 THEN Digits(variant_id[2])
  ELSE Digits(variant_id[1]) \o << "_" >> \o Digits(variant_id[2])

\* the path of a variant file, as text
PathText(f) ==
  << "<base>_variant_" >> \o IdText(<< f[2], f[3] >>)
    \o (IF f[1] = "variant.c" THEN << ".c" >> ELSE << >>)

PathsOf(id) == {PathText(VariantFile(id)), PathText(VariantExe(id))}

\* C12: variant_id is unique among all individuals ever created: creating
\* an individual never replaces another one nor overwrites its files, the
\* source file of an individual holds its code, and no two individuals
\* share an id text or a path
VariantIdsUnique ==
  [][/\ \A id \in DOMAIN ind :
          /\ id \in DOMAIN ind'
          /\ [ind'[id] EXCEPT !.fitness = NoFitness] = [ind[id] EXCEPT !.fitness = NoFitness]
          /\ \A f \in {ind[id].source_path, ind[id].executable} :
               (f \in DOMAIN files /\ f \in DOMAIN files') => files'[f] = files[f]
     /\ \A id \in DOMAIN ind' :
          ind'[id].source_path \in DOMAIN files' => files'[ind'[id].source_path] = ind'[id].code
     /\ \A id1, id2 \in DOMAIN ind' :
          id1 # id2 => (IdText(id1) # IdText(id2) /\ PathsOf(id1) \cap PathsOf(id2) = {})
    ]_vars

\* a child of generation 3 has been created and the source of a failed
\* attempt at another slot of generation 3 is on disk, while individuals of
\* generations 0, 1 and 2 exist
ChildAfterRetry ==
  /\ pc = "fill"
  /\ generation = 3
  /\ \E id \in DOMAIN ind :
       /\ id[1] = 3
       /\ id \in Range(next_generation)
       /\ files[ind[id].source_path] = ind[id].code
  /\ \E f \in DOMAIN files : f[1] = "variant.c" /\ f[2] = 3 /\ << "variant", f[2], f[3] >> \notin DOMAIN files
  /\ \A h \in 0..2 : \E id \in DOMAIN ind : id[1] = h

\* ------------------------------------------------------------------------
\* Artifact lifecycle
\* ------------------------------------------------------------------------
\* the stable names hold the source and the executable of the individual
WinnerSaved(fs, best) ==
  /\ OptimizedSource \in DOMAIN fs /\ fs[OptimizedSource] = best.code
  /\ OptimizedExe \in DOMAIN fs /\ fs[OptimizedExe] = best.code

\* C13: cleanup_variants copies the best individual to the stable names
\* before it deletes variants: nothing is deleted before the copy was
\* tried, what the stable names hold is the winner's, and the winner's
\* variant files are deleted only when the copy to the stable names
\* succeeded, so that on return the winner is on disk
WinnerCopiedBeforeDeletion ==
  /\ pc = "cleanup" =>
       (ind[best_individual].source_path \in DOMAIN files
          /\ ind[best_individual].executable \in DOMAIN files)
  /\ (Returned /\ HasWinner) =>
       LET best == ind[best_individual]
       IN /\ OptimizedSource \in DOMAIN files => files[OptimizedSource] = best.code
          /\ OptimizedExe \in DOMAIN files => files[OptimizedExe] = best.code
          /\ \/ WinnerSaved(files, best)
             \/ (best.source_path \in DOMAIN files /\ best.executable \in DOMAIN files)

====
